---- MODULE Spec2Model ----
(***************************************************************************)
(* Cohort operations of the feature-flags service:                         *)
(*   rust/feature-flags/src/cohort/cohort_operations.rs                    *)
(*                                                                         *)
(* Cohort::parse_filters, Cohort::extract_dependencies,                    *)
(* Cohort::traverse_filters, InnerCohortProperty::to_inner and             *)
(* Cohort::list_from_pg, with the JSON value of the filters column and the *)
(* serde deserialisation into CohortProperty they start from.              *)
(***************************************************************************)
EXTENDS Integers, Sequences, FiniteSets, TLC

VARIABLES
    cohort,     \* the Cohort snapshot the pure operations are called on (&self)
    parsed,     \* what parse_filters returned on it, NotCalled before the call
    deps,       \* what extract_dependencies returned on it
    flat,       \* what to_inner returned on its deserialised tree
    teams,      \* posthog_team: team id -> project id
    rows,       \* posthog_cohort: the stored cohort rows
    pc,         \* list_from_pg: the await the call is at
    project_id, \* list_from_pg: the bound $1
    connCalls,  \* list_from_pg: client.get_connection() calls of this call
    queryCalls, \* list_from_pg: fetch_all() calls of this call
    connResult, \* list_from_pg: what get_connection().await gave this call
    fetchResult,\* list_from_pg: what fetch_all().await gave this call
    listed      \* list_from_pg: what the call returned

vars == <<cohort, parsed, deps, flat, teams, rows, pc, project_id,
          connCalls, queryCalls, connResult, fetchResult, listed>>

cohortVars == <<cohort, parsed, deps, flat>>
pgVars == <<teams, rows, pc, project_id, connCalls, queryCalls, connResult,
           fetchResult, listed>>

-----------------------------------------------------------------------------
(* Bounds of the model.                                                    *)

\* leaf conditions in one filter tree, over all its groups
MaxLeaves == 2
\* groups in one filter tree
MaxGroups == 2
\* rows in posthog_cohort
MaxRows == 3

-----------------------------------------------------------------------------
(* serde_json::Value.  Every value is a record tagged by t.                *)
(*                                                                         *)
(* A JSON integer is kept by the width it needs, since TLC's integers are  *)
(* narrower than the values that matter:                                   *)
(*   w = "i32": the integer n, inside the range of i32;                    *)
(*   w = "i64": the integer 2^32 + n, inside i64 and outside i32;          *)
(*   w = "u64": the integer 2^63 + n, a u64 above i64::MAX.                *)
(* An object is a record whose other fields are its members.               *)

JNull == [t |-> "null"]
JStr(s) == [t |-> "str", s |-> s]
JInt(w, n) == [t |-> "int", w |-> w, n |-> n]
JArr(items) == [t |-> "arr", items |-> items]

\* serde_json::Value::as_i64: Some for an integer that fits i64, None for a
\* u64 above i64::MAX and for every value that is not an integer.
as_i64(v) ==
    IF v.t = "int" /\ v.w \in {"i32", "i64"}
    THEN [some |-> TRUE, val |-> [w |-> v.w, n |-> v.n]]
    ELSE [some |-> FALSE]

\* `cohort_id as CohortId`: CohortId is the crate's alias of i32, and `as`
\* from i64 to i32 keeps the low 32 bits: (2^32 + n) wraps to n.
AsCohortId(x) == x.n

-----------------------------------------------------------------------------
(* PropertyFilter, CohortValues, InnerCohortProperty, CohortProperty and   *)
(* their Deserialize implementations.                                      *)

PropertyFilter(key, value, operator, prop_type) ==
    [key |-> key, value |-> value, operator |-> operator, prop_type |-> prop_type]

CohortValues(prop_type, values) == [prop_type |-> prop_type, values |-> values]

InnerCohortProperty(prop_type, values) == [prop_type |-> prop_type, values |-> values]

\* PropertyFilter::is_cohort
is_cohort(f) == f.key = "id" /\ f.prop_type = "cohort"

Ok(v) == [st |-> "ok", val |-> v]
Err(e) == [st |-> "err", err |-> e]
NotCalled == [st |-> "none"]

\* FlagError::CohortFiltersParsingError
CohortFiltersParsingError == [kind |-> "CohortFiltersParsingError"]
\* FlagError::DatabaseUnavailable
DatabaseUnavailable == [kind |-> "DatabaseUnavailable"]
\* FlagError::Internal(format!("Database query error: {}", e))
Internal(e) == [kind |-> "Internal", msg |-> <<"Database query error: ", e>>]
\* serde_json::Error
SerdeError == [kind |-> "serde_json::Error"]

HasStr(j, f) == f \in DOMAIN j /\ j[f].t = "str"

\* a leaf object: key, type and value are required, operator is optional
DePropertyFilter(j) ==
    IF /\ j.t = "obj"
       /\ HasStr(j, "key")
       /\ HasStr(j, "type")
       /\ "value" \in DOMAIN j
       /\ ("operator" \in DOMAIN j => j.operator.t \in {"str", "null"})
    THEN Ok(PropertyFilter(j.key.s, j.value,
                           IF "operator" \in DOMAIN j /\ j.operator.t = "str"
                           THEN j.operator.s ELSE "None",
                           j.type.s))
    ELSE Err(SerdeError)

\* a group object: type and a values array of leaf objects
DeCohortValues(j) ==
    IF /\ j.t = "obj"
       /\ HasStr(j, "type")
       /\ "values" \in DOMAIN j
       /\ j.values.t = "arr"
       /\ \A i \in DOMAIN j.values.items : DePropertyFilter(j.values.items[i]).st = "ok"
    THEN Ok(CohortValues(j.type.s,
                         [i \in DOMAIN j.values.items |->
                             DePropertyFilter(j.values.items[i]).val]))
    ELSE Err(SerdeError)

\* the combinator object: type and a values array of group objects
DeInnerCohortProperty(j) ==
    IF /\ j.t = "obj"
       /\ HasStr(j, "type")
       /\ "values" \in DOMAIN j
       /\ j.values.t = "arr"
       /\ \A i \in DOMAIN j.values.items : DeCohortValues(j.values.items[i]).st = "ok"
    THEN Ok(InnerCohortProperty(j.type.s,
                                [i \in DOMAIN j.values.items |->
                                    DeCohortValues(j.values.items[i]).val]))
    ELSE Err(SerdeError)

\* serde_json::from_value::<CohortProperty>
from_value(j) ==
    IF j.t = "obj" /\ "properties" \in DOMAIN j
    THEN LET inner == DeInnerCohortProperty(j.properties)
         IN  IF inner.st = "ok" THEN Ok([properties |-> inner.val]) ELSE Err(SerdeError)
    ELSE Err(SerdeError)

-----------------------------------------------------------------------------
(* InnerCohortProperty::to_inner                                           *)

RECURSIVE to_inner_reversed(_)
\* a to_inner that collects the groups last to first
to_inner_reversed(values) ==
    IF values = <<>> THEN <<>>
    ELSE to_inner_reversed(Tail(values)) \o Head(values).values

RECURSIVE flat_map(_)
\* values.into_iter().flat_map(|value| value.values).collect()
flat_map(values) ==
    IF values = <<>> THEN <<>>
    ELSE Head(values).values \o flat_map(Tail(values))

to_inner_last_first(self) == to_inner_reversed(self.values)

to_inner(self) == flat_map(self.values)

-----------------------------------------------------------------------------
(* Cohort::parse_filters                                                   *)

None == [some |-> FALSE]
Some(v) == [some |-> TRUE, val |-> v]

\* props.retain(|f| !(f.key == "id" && f.prop_type == "cohort"))
retain(props) ==
    SelectSeq(props, LAMBDA f : ~(f.key = "id" /\ f.prop_type = "cohort"))

\* a parse_filters that treats absent filters as a parsing error
parse_filters_none_err(self) ==
    IF ~self.filters.some
    THEN Err(CohortFiltersParsingError)
    ELSE LET cohort_property == from_value(self.filters.val)
         IN  IF cohort_property.st = "err"
             THEN Err(CohortFiltersParsingError)
             ELSE Ok(retain(to_inner(cohort_property.val.properties)))

\* a parse_filters that falls back to no conditions when serde fails
parse_filters_default(self) ==
    IF ~self.filters.some
    THEN Ok(<<>>)
    ELSE LET cohort_property == from_value(self.filters.val)
         IN  IF cohort_property.st = "err"
             THEN Ok(<<>>)
             ELSE Ok(retain(to_inner(cohort_property.val.properties)))

\* a parse_filters without the retain
parse_filters_keep(self) ==
    IF ~self.filters.some
    THEN Ok(<<>>)
    ELSE LET cohort_property == from_value(self.filters.val)
         IN  IF cohort_property.st = "err"
             THEN Err(CohortFiltersParsingError)
             ELSE Ok(to_inner(cohort_property.val.properties))

parse_filters(self) ==
    IF ~self.filters.some
    THEN Ok(<<>>)
    ELSE LET cohort_property == from_value(self.filters.val)
         IN  IF cohort_property.st = "err"
             THEN Err(CohortFiltersParsingError)
             ELSE Ok(retain(to_inner(cohort_property.val.properties)))

-----------------------------------------------------------------------------
(* Cohort::traverse_filters and Cohort::extract_dependencies               *)

RECURSIVE traverse_values_skip(_, _, _)
\* an inner loop that skips a cohort filter whose value is no i64
traverse_values_skip(values, j, dependencies) ==
    IF j > Len(values)
    THEN [ok |-> TRUE, dependencies |-> dependencies]
    ELSE LET filter == values[j]
         IN  IF is_cohort(filter) /\ as_i64(filter.value).some
             THEN traverse_values_skip(values, j + 1,
                      dependencies \cup {AsCohortId(as_i64(filter.value).val)})
             ELSE traverse_values_skip(values, j + 1, dependencies)

RECURSIVE traverse_values(_, _, _)
\* for filter in &cohort_values.values { ... }, from the j-th filter on
traverse_values(values, j, dependencies) ==
    IF j > Len(values)
    THEN [ok |-> TRUE, dependencies |-> dependencies]
    ELSE LET filter == values[j]
         IN  IF is_cohort(filter)
             THEN IF as_i64(filter.value).some
                  THEN traverse_values(values, j + 1,
                           dependencies \cup {AsCohortId(as_i64(filter.value).val)})
                  ELSE [ok |-> FALSE, dependencies |-> dependencies]
             ELSE traverse_values(values, j + 1, dependencies)

RECURSIVE traverse_groups(_, _, _)
\* for cohort_values in &inner.values { ... }, from the i-th group on
traverse_groups(groups, i, dependencies) ==
    IF i > Len(groups)
    THEN [ok |-> TRUE, dependencies |-> dependencies]
    ELSE LET r == traverse_values(groups[i].values, 1, dependencies)
         IN  IF r.ok
             THEN traverse_groups(groups, i + 1, r.dependencies)
             ELSE r

\* dependencies is a &mut HashSet: what was inserted before an Err stays in it
traverse_filters(inner, dependencies) == traverse_groups(inner.values, 1, dependencies)

\* an extract_dependencies that drops the Result of traverse_filters
extract_dependencies_unchecked(self) ==
    IF ~self.filters.some
    THEN Ok({})
    ELSE LET cohort_property == from_value(self.filters.val)
         IN  IF cohort_property.st = "err"
             THEN Err(CohortFiltersParsingError)
             ELSE Ok(traverse_filters(cohort_property.val.properties, {}).dependencies)

extract_dependencies(self) ==
    IF ~self.filters.some
    THEN Ok({})
    ELSE LET cohort_property == from_value(self.filters.val)
         IN  IF cohort_property.st = "err"
             THEN Err(CohortFiltersParsingError)
             ELSE LET r == traverse_filters(cohort_property.val.properties, {})
                  IN  IF r.ok THEN Ok(r.dependencies)
                      ELSE Err(CohortFiltersParsingError)

-----------------------------------------------------------------------------
(* The cohorts the operations are called on.                               *)

\* the leaf conditions filter trees are built from
Leaves ==
    { PropertyFilter("id", JInt("i32", 1), "None", "cohort"),
      PropertyFilter("id", JInt("i32", 2), "exact", "cohort"),
      PropertyFilter("id", JInt("i64", 1), "None", "cohort"),
      PropertyFilter("id", JInt("u64", 1), "None", "cohort"),
      PropertyFilter("id", JArr(<<JInt("i32", 123)>>), "None", "cohort"),
      PropertyFilter("id", JStr("7"), "None", "cohort"),
      PropertyFilter("id", JNull, "None", "cohort"),
      PropertyFilter("id", JInt("i32", 1), "exact", "person"),
      PropertyFilter("email", JInt("i32", 2), "None", "cohort"),
      PropertyFilter("email", JStr("@posthog.com"), "icontains", "person") }

RECURSIVE SumTo(_, _)
SumTo(sizes, k) == IF k = 0 THEN 0 ELSE sizes[k] + SumTo(sizes, k - 1)

\* the tree whose i-th group holds the next sizes[i] leaves of ls
TreeOf(ls, sizes) ==
    InnerCohortProperty("OR",
        [i \in DOMAIN sizes |->
            CohortValues("AND",
                [k \in 1..sizes[i] |-> ls[SumTo(sizes, i - 1) + k]])])

\* every tree of at most MaxGroups groups (empty groups too) and MaxLeaves leaves
Trees ==
    { TreeOf(ls, sizes) :
        <<ls, sizes>> \in
            { p \in (UNION { [1..n -> Leaves] : n \in 0..MaxLeaves })
                    \X (UNION { [1..g -> 0..MaxLeaves] : g \in 0..MaxGroups }) :
                SumTo(p[2], Len(p[2])) = Len(p[1]) } }

\* the JSON object a leaf condition is stored as
LeafJson(f) ==
    IF f.operator = "None"
    THEN [t |-> "obj", key |-> JStr(f.key), type |-> JStr(f.prop_type),
          value |-> f.value]
    ELSE [t |-> "obj", key |-> JStr(f.key), type |-> JStr(f.prop_type),
          value |-> f.value, operator |-> JStr(f.operator)]

GroupJson(g) ==
    [t |-> "obj", type |-> JStr(g.prop_type),
     values |-> JArr([k \in DOMAIN g.values |-> LeafJson(g.values[k])])]

\* {"properties": {"type": .., "values": [{"type": .., "values": [..]}]}}
ToJson(inner) ==
    [t |-> "obj",
     properties |->
        [t |-> "obj", type |-> JStr(inner.prop_type),
         values |-> JArr([i \in DOMAIN inner.values |-> GroupJson(inner.values[i])])]]

\* well-formed documents whose last group and last leaf the malformed ones replace
BaseTrees ==
    { TreeOf(<<PropertyFilter("id", JInt("i32", 1), "None", "cohort"),
               PropertyFilter("email", JStr("@posthog.com"), "icontains", "person")>>,
             <<2>>),
      TreeOf(<<PropertyFilter("email", JStr("@posthog.com"), "icontains", "person"),
               PropertyFilter("id", JInt("i32", 2), "exact", "cohort")>>,
             <<1, 1>>) }

LastGroup(d) == Len(d.properties.values.items)
LastLeaf(d) == Len(d.properties.values.items[LastGroup(d)].values.items)

WithLastGroup(d, g) == [d EXCEPT !.properties.values.items[LastGroup(d)] = g]

WithLastLeaf(d, l) ==
    [d EXCEPT !.properties.values.items[LastGroup(d)].values.items[LastLeaf(d)] = l]

\* the documents of d's shape that are not the two-level shape
MalformedOf(d) ==
    LET g == d.properties.values.items[LastGroup(d)]
        l == g.values.items[LastLeaf(d)]
    IN  { [t |-> "obj"],                                            \* no properties
          JArr(<<>>),                                               \* not an object
          [d EXCEPT !.properties = JArr(d.properties.values.items)], \* properties is an array
          [t |-> "obj", properties |-> [t |-> "obj", type |-> JStr("OR")]], \* no values
          WithLastGroup(d, [t |-> "obj", type |-> g.type]),         \* a group without values
          WithLastGroup(d, [g EXCEPT !.values = JStr("x")]),        \* values is a string
          WithLastGroup(d, [t |-> "obj", values |-> g.values]),     \* a group without type
          WithLastLeaf(d, [t |-> "obj", type |-> JStr("AND"),
                           values |-> JArr(<<l>>)]),                \* a leaf that is a group
          WithLastLeaf(d, [l EXCEPT !.key = JInt("i32", 1)]),       \* key is a number
          WithLastLeaf(d, [t |-> "obj", key |-> l.key, type |-> l.type]) } \* no value

Malformed == UNION { MalformedOf(ToJson(b)) : b \in BaseTrees }

Cohort(id, name, team_id, deleted, filters) ==
    [id |-> id, name |-> name, team_id |-> team_id, deleted |-> deleted,
     filters |-> filters]

\* three trees of three leaves: a malformed reference between two well-formed
\* ones, a reference between two property conditions, an empty middle group
SampleTrees ==
    { TreeOf(<<PropertyFilter("id", JInt("i32", 1), "None", "cohort"),
               PropertyFilter("id", JArr(<<JInt("i32", 123)>>), "None", "cohort"),
               PropertyFilter("id", JInt("i32", 2), "exact", "cohort")>>,
             <<2, 1>>),
      TreeOf(<<PropertyFilter("email", JStr("@posthog.com"), "icontains", "person"),
               PropertyFilter("id", JInt("i32", 2), "exact", "cohort"),
               PropertyFilter("id", JInt("i32", 1), "exact", "person")>>,
             <<1, 2>>),
      TreeOf(<<PropertyFilter("email", JStr("@posthog.com"), "icontains", "person"),
               PropertyFilter("id", JInt("i32", 1), "exact", "person"),
               PropertyFilter("id", JInt("i32", 1), "None", "cohort")>>,
             <<1, 0, 2>>) }

Cohorts ==
    { Cohort(1, Some("Test Cohort"), 1, FALSE, Some(ToJson(inner))) :
        inner \in Trees \cup SampleTrees }
    \cup { Cohort(1, Some("Test Cohort"), 1, FALSE, Some(d)) : d \in Malformed }
    \cup { Cohort(id, name, 1, deleted, None) :
             id \in {1, 2}, name \in {None, Some("Test Cohort")}, deleted \in BOOLEAN }

-----------------------------------------------------------------------------
(* The operations on one cohort snapshot.                                  *)

InitCohort ==
    /\ cohort \in Cohorts
    /\ parsed = NotCalled
    /\ deps = NotCalled
    /\ flat = NotCalled

\* cohort.parse_filters()
ParseFilters ==
    /\ parsed' = parse_filters(cohort)
    /\ UNCHANGED <<cohort, deps, flat>>
    /\ UNCHANGED pgVars

\* cohort.extract_dependencies()
ExtractDependencies ==
    /\ deps' = extract_dependencies(cohort)
    /\ UNCHANGED <<cohort, parsed, flat>>
    /\ UNCHANGED pgVars

\* cohort_property.properties.to_inner(), on the tree the filters deserialise to
ToInner ==
    /\ cohort.filters.some
    /\ from_value(cohort.filters.val).st = "ok"
    /\ flat' = Ok(to_inner(from_value(cohort.filters.val).val.properties))
    /\ UNCHANGED <<cohort, parsed, deps>>
    /\ UNCHANGED pgVars

-----------------------------------------------------------------------------
(* Cohort::list_from_pg                                                    *)

\* posthog_team: teams 1 and 2 belong to project 1, team 3 to project 2
Teams == <<1, 1, 2>>

\* the project ids list_from_pg is called with; no team belongs to project 3
Projects == {1, 2, 3}

\* what the database reports when the query fails
QueryErrors == {"syntax error", "connection reset"}

\* the rows one cohort id can be stored as
RowsOf(id) ==
    { Cohort(id, Some("Cohort 1"), team_id, deleted, None) :
        team_id \in DOMAIN Teams, deleted \in BOOLEAN }
    \cup { Cohort(id, None, team_id, TRUE, Some(JNull)) : team_id \in DOMAIN Teams }

\* every posthog_cohort table of at most MaxRows rows, ids 1..n
Tables ==
    UNION { { { f[i] : i \in 1..n } :
                f \in { g \in [1..n -> UNION { RowsOf(i) : i \in 1..n }] :
                          \A i \in 1..n : g[i].id = i } } :
            n \in 0..MaxRows }

\* a query without the c.deleted = false condition
query_with_deleted(table, team, p) ==
    { c \in table : \E t \in DOMAIN team : c.team_id = t /\ team[t] = p }

\* FROM posthog_cohort AS c JOIN posthog_team AS t ON (c.team_id = t.id)
\* WHERE t.project_id = $1 AND c.deleted = false
query(table, team, p) ==
    { c \in table :
        \E t \in DOMAIN team : c.team_id = t /\ team[t] = p /\ c.deleted = FALSE }

\* the orders fetch_all may return a set of rows in
Orders(S) ==
    { s \in [1..Cardinality(S) -> S] : \A i, j \in DOMAIN s : s[i] = s[j] => i = j }

InitPg ==
    /\ teams = Teams
    /\ rows \in Tables
    /\ pc = "idle"
    /\ project_id = 0
    /\ connCalls = 0
    /\ queryCalls = 0
    /\ connResult = NotCalled
    /\ fetchResult = NotCalled
    /\ listed = NotCalled

\* Cohort::list_from_pg(client, p) is called
Call(p) ==
    /\ pc \in {"idle", "done"}
    /\ pc' = "get_connection"
    /\ project_id' = p
    /\ connCalls' = 0
    /\ queryCalls' = 0
    /\ connResult' = NotCalled
    /\ fetchResult' = NotCalled
    /\ listed' = NotCalled
    /\ UNCHANGED <<teams, rows>>
    /\ UNCHANGED cohortVars

\* client.get_connection().await is Ok(conn)
GetConnectionOk ==
    /\ pc = "get_connection"
    /\ connCalls' = connCalls + 1
    /\ connResult' = Ok("conn")
    /\ pc' = "fetch_all"
    /\ UNCHANGED <<teams, rows, project_id, queryCalls, fetchResult, listed>>
    /\ UNCHANGED cohortVars

\* a failed get_connection whose error is logged and not returned
GetConnectionErrIgnored ==
    /\ pc = "get_connection"
    /\ connCalls' = connCalls + 1
    /\ connResult' = Err("pool timed out")
    /\ pc' = "fetch_all"
    /\ UNCHANGED <<teams, rows, project_id, queryCalls, fetchResult, listed>>
    /\ UNCHANGED cohortVars

\* client.get_connection().await is Err(e): map_err to DatabaseUnavailable, `?`
GetConnectionErr ==
    /\ pc = "get_connection"
    /\ connCalls' = connCalls + 1
    /\ connResult' = Err("pool timed out")
    /\ listed' = Err(DatabaseUnavailable)
    /\ pc' = "done"
    /\ UNCHANGED <<teams, rows, project_id, queryCalls, fetchResult>>
    /\ UNCHANGED cohortVars

\* fetch_all(&mut *conn).await is Ok(cohorts): Ok(cohorts)
FetchAllOk ==
    /\ pc = "fetch_all"
    /\ queryCalls' = queryCalls + 1
    /\ \E cohorts \in Orders(query(rows, teams, project_id)) :
          /\ fetchResult' = Ok(cohorts)
          /\ listed' = Ok(cohorts)
    /\ pc' = "done"
    /\ UNCHANGED <<teams, rows, project_id, connCalls, connResult>>
    /\ UNCHANGED cohortVars

\* fetch_all(&mut *conn).await is Err(e): map_err to Internal, `?`
FetchAllErr(e) ==
    /\ pc = "fetch_all"
    /\ queryCalls' = queryCalls + 1
    /\ fetchResult' = Err(e)
    /\ listed' = Err(Internal(e))
    /\ pc' = "done"
    /\ UNCHANGED <<teams, rows, project_id, connCalls, connResult>>
    /\ UNCHANGED cohortVars

-----------------------------------------------------------------------------
(* The specifications: Spec of the operations on one cohort snapshot,      *)
(* SpecPg of list_from_pg.                                                 *)

PgIdle ==
    /\ teams = Teams
    /\ rows = {}
    /\ pc = "idle"
    /\ project_id = 0
    /\ connCalls = 0
    /\ queryCalls = 0
    /\ connResult = NotCalled
    /\ fetchResult = NotCalled
    /\ listed = NotCalled

Init == InitCohort /\ PgIdle

Next == ParseFilters \/ ExtractDependencies \/ ToInner

Spec == Init /\ [][Next]_vars

CohortIdle ==
    /\ cohort = Cohort(1, None, 1, FALSE, None)
    /\ parsed = NotCalled
    /\ deps = NotCalled
    /\ flat = NotCalled

InitWithPg == CohortIdle /\ InitPg

NextPg ==
    \/ \E p \in Projects : Call(p)
    \/ GetConnectionOk
    \/ GetConnectionErr
    \/ FetchAllOk
    \/ \E e \in QueryErrors : FetchAllErr(e)

SpecPg == InitWithPg /\ [][NextPg]_vars

-----------------------------------------------------------------------------------------------------------------------------------------------------
(* What the properties below speak of: the tree the cohort's filters       *)
(* deserialise to, the places of its leaves, the cohort references.        *)

\* the filters are present and have the two-level shape
Parses == cohort.filters.some /\ from_value(cohort.filters.val).st = "ok"

Tree == from_value(cohort.filters.val).val.properties

\* <<i, j>>: the j-th leaf of the i-th group
Positions(tree) ==
    UNION { { <<i, j>> : j \in DOMAIN tree.values[i].values } : i \in DOMAIN tree.values }

LeafAt(tree, p) == tree.values[p[1]].values[p[2]]

\* p is q or comes before q in group order, then order within the group
Before(p, q) == p[1] < q[1] \/ (p[1] = q[1] /\ p[2] <= q[2])

IsCohortRef(l) == l.key = "id" /\ l.prop_type = "cohort"

CohortRefs(tree) == { p \in Positions(tree) : IsCohortRef(LeafAt(tree, p)) }

NonRefs(tree) == { p \in Positions(tree) : ~IsCohortRef(LeafAt(tree, p)) }

\* the cohort references whose value is not a JSON integer
MalformedRefs(tree) == { p \in CohortRefs(tree) : LeafAt(tree, p).value.t # "int" }

\* the place of the non-reference leaf at p among the non-reference leaves
Rank(tree, p) == Cardinality({ q \in NonRefs(tree) : Before(q, p) })

\* the JSON integers the ids of a dependency set stand for
AsValues(ids) == { JInt("i32", d) : d \in ids }

-----------------------------------------------------------------------------
(* Properties of Spec.                                                     *)

\* C1: when the filters parse and every cohort reference (key "id", type
\* "cohort") holds a single integer, extract_dependencies succeeds and its set
\* is exactly the set of those integers.
C1_ExactDependencySet ==
    (deps.st # "none" /\ Parses)
        => LET tree == Tree
           IN  MalformedRefs(tree) = {}
                 => /\ deps.st = "ok"
                    /\ AsValues(deps.val) =
                         { LeafAt(tree, p).value : p \in CohortRefs(tree) }

\* C2: when any cohort reference of the parsed tree holds a value that is not
\* a single integer, extract_dependencies returns CohortFiltersParsingError and
\* no dependency set, wherever the leaf sits.
C2_MalformedReferenceFails ==
    (deps.st # "none" /\ Parses)
        => LET tree == Tree
           IN  MalformedRefs(tree) # {}
                 => /\ deps = Err(CohortFiltersParsingError)
                    /\ "val" \notin DOMAIN deps

\* extract_dependencies failed on a tree with a well-formed reference before
\* the malformed one and another after it
C2_Witness ==
    /\ Parses
    /\ deps.st = "err"
    /\ LET tree == Tree
           bad == MalformedRefs(tree)
       IN  \E p, q, r \in CohortRefs(tree) :
              /\ q \in bad
              /\ p # q /\ Before(p, q) /\ p \notin bad
              /\ r # q /\ Before(q, r) /\ r \notin bad

\* C3 as stated: a cohort reference whose value is not a single integer is a
\* parse error in parse_filters as well as in extract_dependencies.
C3_ErrorInEveryOperation ==
    (Parses /\ MalformedRefs(Tree) # {})
        => /\ parsed.st # "none" => parsed.st = "err"
           /\ deps.st # "none" => deps.st = "err"

\* C3 as amended: such a leaf is a parse error in extract_dependencies only;
\* parse_filters succeeds and leaves it out with every other cohort reference,
\* returning the other leaves.
C3_ErrorInExtractOnly ==
    ((deps.st # "none" \/ parsed.st # "none") /\ Parses)
        => LET tree == Tree
           IN  MalformedRefs(tree) # {}
                 => /\ deps.st # "none" => deps = Err(CohortFiltersParsingError)
                    /\ parsed.st # "none" =>
                         /\ parsed.st = "ok"
                         /\ \A k \in DOMAIN parsed.val : ~IsCohortRef(parsed.val[k])
                         /\ Len(parsed.val) = Cardinality(NonRefs(tree))

\* both operations were called on a tree with a malformed reference and a
\* property condition
C3_Witness ==
    /\ Parses
    /\ MalformedRefs(Tree) # {}
    /\ NonRefs(Tree) # {}
    /\ deps.st = "err"
    /\ parsed.st = "ok"

\* C4: with filters absent, whatever the other fields hold, parse_filters
\* returns an empty list and extract_dependencies an empty set, never an error.
C4_AbsentFiltersAreEmpty ==
    ~cohort.filters.some
        => /\ parsed.st # "none" => parsed = Ok(<<>>)
           /\ deps.st # "none" => deps = Ok({})

\* both operations were called on a deleted, unnamed cohort without filters
C4_Witness ==
    /\ ~cohort.filters.some
    /\ cohort.deleted
    /\ ~cohort.name.some
    /\ parsed.st = "ok"
    /\ deps.st = "ok"

\* C5: with filters present that do not have the two-level shape, both
\* operations return CohortFiltersParsingError and never a success.
C5_MalformedShapeFails ==
    (cohort.filters.some /\ cohort.filters.val \in Malformed)
        => /\ parsed.st # "none" => parsed = Err(CohortFiltersParsingError)
           /\ deps.st # "none" => deps = Err(CohortFiltersParsingError)

\* both operations failed on a document whose second group, after a
\* well-formed first one, lacks its values
C5_Witness ==
    /\ cohort.filters.some
    /\ cohort.filters.val \in Malformed
    /\ cohort.filters.val.t = "obj"
    /\ "properties" \in DOMAIN cohort.filters.val
    /\ cohort.filters.val.properties.t = "obj"
    /\ "values" \in DOMAIN cohort.filters.val.properties
    /\ LET groups == cohort.filters.val.properties.values.items
       IN  /\ Len(groups) = 2
           /\ DeCohortValues(groups[1]).st = "ok"
           /\ "values" \notin DOMAIN groups[2]
    /\ parsed.st = "err"
    /\ deps.st = "err"

\* C6: when the filters parse, the list parse_filters returns holds no cohort
\* reference and holds every other leaf of the tree once, unchanged, in the
\* order of the flattened tree.
C6_ParseFiltersKeepsTheRest ==
    (parsed.st # "none" /\ Parses)
        => LET tree == Tree
               rest == NonRefs(tree)
           IN  /\ parsed.st = "ok"
               /\ \A k \in DOMAIN parsed.val : ~IsCohortRef(parsed.val[k])
               /\ Len(parsed.val) = Cardinality(rest)
               /\ \A p \in rest :
                     parsed.val[Cardinality({ q \in rest : Before(q, p) })]
                         = LeafAt(tree, p)

\* parse_filters removed a reference that sat between two different property
\* conditions of different groups
C6_Witness ==
    /\ Parses
    /\ parsed.st = "ok"
    /\ LET tree == Tree
       IN  \E p, q, r \in Positions(tree) :
              /\ p \in NonRefs(tree) /\ r \in NonRefs(tree) /\ q \in CohortRefs(tree)
              /\ p # q /\ Before(p, q) /\ q # r /\ Before(q, r)
              /\ p[1] # r[1]
              /\ LeafAt(tree, p) # LeafAt(tree, r)

\* C7: to_inner returns the concatenation of the groups' leaf sequences: its
\* length is the sum of the groups' lengths, and the j-th leaf of group i is
\* at the place after all leaves of the groups before i and the j - 1 leaves
\* before it in its group.
C7_ToInnerConcatenates ==
    flat.st # "none"
        => LET tree == Tree
               all == Positions(tree)
           IN  /\ Len(flat.val) = Cardinality(all)
               /\ \A p \in all :
                     flat.val[Cardinality({ q \in all : q[1] < p[1] }) + p[2]]
                         = LeafAt(tree, p)

\* to_inner ran on a tree of three groups, the middle one empty, the others
\* holding different leaves
C7_Witness ==
    /\ flat.st = "ok"
    /\ LET tree == Tree
       IN  /\ Len(tree.values) = 3
           /\ Len(tree.values[1].values) = 1
           /\ Len(tree.values[2].values) = 0
           /\ Len(tree.values[3].values) = 2
           /\ Cardinality({ LeafAt(tree, p) : p \in Positions(tree) }) = 3

\* C10: whenever extract_dependencies succeeds, parse_filters succeeds on the
\* same snapshot, and the leaves split into those parse_filters returns and
\* the cohort references, whose values form the dependency set.
C10_OperationsConsistent ==
    (deps.st = "ok" /\ parsed.st # "none" /\ Parses)
        => LET tree == Tree
               refs == CohortRefs(tree)
               rest == NonRefs(tree)
           IN  /\ parsed.st = "ok"
               /\ Len(parsed.val) + Cardinality(refs) = Cardinality(Positions(tree))
               /\ \A p \in rest : parsed.val[Rank(tree, p)] = LeafAt(tree, p)
               /\ AsValues(deps.val) = { LeafAt(tree, p).value : p \in refs }

-----
(* Properties of SpecPg.                                                   *)

\* the elements of a sequence
Range(seq) == { seq[i] : i \in DOMAIN seq }

\* C8: a successful list_from_pg(project_id) returns exactly the rows with
\* deleted = false whose team belongs to the project, each once.
C8_ListsExactlyTheLiveRows ==
    listed.st = "ok"
        => /\ Range(listed.val) =
                { c \in rows : ~c.deleted /\ teams[c.team_id] = project_id }
           /\ Len(listed.val) = Cardinality(Range(listed.val))

\* the call returned one row and left out a deleted row of the same project
\* and a live row of another project
C8_Witness ==
    /\ listed.st = "ok"
    /\ Len(listed.val) = 1
    /\ \E c \in rows : c.deleted /\ teams[c.team_id] = project_id
    /\ \E c \in rows : ~c.deleted /\ teams[c.team_id] # project_id

\* C9: list_from_pg ends at its first failing step.  A failed get_connection
\* gives DatabaseUnavailable and no query; a failed query gives Internal with
\* the underlying message; neither gives a list, and no step runs twice.
C9_FailsAtFirstFailingStep ==
    /\ connCalls <= 1
    /\ queryCalls <= 1
    /\ connResult.st = "err"
         => /\ queryCalls = 0
            /\ fetchResult.st = "none"
            /\ pc = "done"
            /\ listed = Err(DatabaseUnavailable)
    /\ fetchResult.st = "err"
         => /\ connResult.st = "ok"
            /\ pc = "done"
            /\ listed = Err(Internal(fetchResult.err))
    /\ listed.st = "err" => "val" \notin DOMAIN listed

\* the query failed after the connection was acquired
C9_Witness ==
    /\ pc = "done"
    /\ connResult.st = "ok"
    /\ connCalls = 1
    /\ queryCalls = 1
    /\ fetchResult = Err("syntax error")
    /\ listed = Err(Internal("syntax error"))

====
